---- MODULE Spec2Model ----
(***************************************************************************)
(* A model of rpy-tools: rpy_generator.py (plain text screenplay -> .rpy   *)
(* script files) and rpy_indexer.py (labels of .rpy files -> jump menus).  *)
(*                                                                         *)
(* Text is a sequence of one-character strings, so that strip, replace,    *)
(* find and slicing are computed the way Python computes them.  Python's   *)
(* None is the value None below, which no text equals.                     *)
(***************************************************************************)
EXTENDS Integers, Sequences, FiniteSets, TLC

\* ------------------------------------------------------------------ bounds
\* longest generated label list handed to the menu builder
MaxLabels == 45
\* longest label list enumerated over SmallLabels
MaxSmallLen == 2
\* largest explicit small page size (besides MAX_LABELS_PER_MENU)
MaxPageSize == 3
\* longest raw text handed to normalize_label
MaxTextLen == 3
\* largest reading of the millisecond clock
MaxMillis == 11
\* longest line handed to parse_text_line
MaxLineLen == 4
\* most lines in one screenplay file of a converter run
MaxFileLines == 2

\* --------------------------------------------------------------- constants
MAX_LABELS_PER_MENU == 20

None == <<"None">>

LABEL == <<"l", "a", "b", "e", "l">>
COLON == ":"
ELLIPSIS == <<".", ".", ".">>
BACK == <<"<", " ", "B", "A", "C", "K">>
EXT_TXT == <<".", "t", "x", "t">>
EXT_RPY == <<".", "r", "p", "y">>
MAIN_LABEL == <<"m", "a", "i", "n">>

\* ------------------------------------------------------- Python primitives
\* Python truthiness of an Optional[str] / list
Truthy(x) == x # None /\ x # <<>>

\* str.isspace() of one character (the whitespace str.strip() removes)
IsSpace(c) == c \in {" ", "\t", "\n"}

\* str.isdigit() of one character
IsDigit(c) == c \in {"0", "1", "2", "3", "4", "5", "6", "7", "8", "9"}

\* s[a:b] with 0-based, end-exclusive Python indices, 0 <= a
Slice(s, a, b) ==
    LET e == IF b > Len(s) THEN Len(s) ELSE b
    IN  IF a >= e THEN <<>> ELSE SubSeq(s, a + 1, e)

RECURSIVE LStripSet(_, _)
\* str.lstrip(chars)
LStripSet(s, chars) ==
    IF s # <<>> /\ Head(s) \in chars THEN LStripSet(Tail(s), chars) ELSE s

RECURSIVE RStripSet(_, _)
\* str.rstrip(chars)
RStripSet(s, chars) ==
    IF s # <<>> /\ s[Len(s)] \in chars
    THEN RStripSet(SubSeq(s, 1, Len(s) - 1), chars)
    ELSE s

Whitespace == {" ", "\t", "\n"}

\* str.strip()
Strip(s) == RStripSet(LStripSet(s, Whitespace), Whitespace)

\* str.rstrip()
RStrip(s) == RStripSet(s, Whitespace)

RECURSIVE Replace(_, _, _)
\* str.replace(old, new) for one-character old and new
Replace(s, old, new) ==
    IF s = <<>> THEN <<>>
    ELSE <<IF Head(s) = old THEN new ELSE Head(s)>> \o Replace(Tail(s), old, new)

RECURSIVE FindFrom(_, _, _)
\* index (0-based) of the first c in s at or after 0-based position i, else -1
FindFrom(s, c, i) ==
    IF i >= Len(s) THEN -1
    ELSE IF s[i + 1] = c THEN i
    ELSE FindFrom(s, c, i + 1)

\* str.find(c)
Find(s, c) == FindFrom(s, c, 0)

DigitChar(d) ==
    CASE d = 0 -> "0" [] d = 1 -> "1" [] d = 2 -> "2" [] d = 3 -> "3"
      [] d = 4 -> "4" [] d = 5 -> "5" [] d = 6 -> "6" [] d = 7 -> "7"
      [] d = 8 -> "8" [] d = 9 -> "9"

RECURSIVE Str(_)
\* str(n) of a natural number
Str(n) == IF n < 10 THEN <<DigitChar(n)>> ELSE Str(n \div 10) \o <<DigitChar(n % 10)>>

\* -------------------------------------------------------------- menu pages
\* One written line of a menu file:
\*   <<"label", l>>   label l:
\*   <<"pass">>       pass
\*   <<"menu">>       menu:
\*   <<"choice", t>>  "t":
\*   <<"jump", l>>    jump l

RECURSIVE MenuEntries_reversed(_)
\* mutant of MenuEntries: the entries come out in reverse order
MenuEntries_reversed(ls) ==
    IF ls = <<>> THEN <<>>
    ELSE MenuEntries_reversed(Tail(ls))
         \o <<<<"choice", Head(ls)>>, <<"jump", Head(ls)>>>>

RECURSIVE MenuEntries(_)
\* the for loop of write_jump_menu_to_file
MenuEntries(ls) ==
    IF ls = <<>> THEN <<>>
    ELSE <<<<"choice", Head(ls)>>, <<"jump", Head(ls)>>>> \o MenuEntries(Tail(ls))

\* mutant of write_jump_menu_to_file: no placeholder, always a menu
write_jump_menu_to_file_always_menu(top_label, ls, go_back) ==
    <<<<"label", top_label>>, <<"menu">>>> \o
    (IF Truthy(go_back)
     THEN <<<<"choice", BACK>>, <<"jump", go_back>>>>
     ELSE <<>>) \o
    (IF ~Truthy(ls) THEN <<>> ELSE MenuEntries(ls))

\* the lines write_jump_menu_to_file / write_jump_menu_to_script_file write
write_jump_menu_to_file(top_label, ls, go_back) ==
    <<<<"label", top_label>>>> \o
    (IF ~Truthy(go_back) /\ ~Truthy(ls)
     THEN <<<<"pass">>>>
     ELSE <<<<"menu">>>> \o
          (IF Truthy(go_back)
           THEN <<<<"choice", BACK>>, <<"jump", go_back>>>>
           ELSE <<>>) \o
          (IF ~Truthy(ls) THEN <<>> ELSE MenuEntries(ls)))

\* mutant of BatchAt: the slice ends one element early
BatchAt_short(ls, batch_size, k) ==
    LET i == k * batch_size
        hi == IF i + batch_size < Len(ls) THEN i + batch_size ELSE Len(ls)
    IN  Slice(ls, i, hi - 1)

\* the i-th batch (0-based) that batch_labels yields: labels[i*size : min(..)]
BatchAt(ls, batch_size, k) ==
    LET i == k * batch_size
        hi == IF i + batch_size < Len(ls) THEN i + batch_size ELSE Len(ls)
    IN  Slice(ls, i, hi)

\* mutant of BatchCount: the last, shorter batch is not yielded
BatchCount_floor(ls, batch_size) ==
    IF batch_size < 1 THEN 0
    ELSE IF ls = <<>> THEN 0
    ELSE Len(ls) \div batch_size

\* number of batches batch_labels yields: len(range(0, labels_count, batch_size))
BatchCount(ls, batch_size) ==
    IF batch_size < 1 THEN 0
    ELSE IF ls = <<>> THEN 0
    ELSE (Len(ls) + batch_size - 1) \div batch_size

\* batch_labels as the list of the batches it yields
batch_labels(ls, batch_size) ==
    [k \in 1..BatchCount(ls, batch_size) |-> BatchAt(ls, batch_size, k - 1)]

\* mutant of SubLabel: batch numbers start at 1
SubLabel_from_one(root, n) == root \o <<"_">> \o Str(n + 1)

\* f"{root_label}_{batch_number}"
SubLabel(root, n) == root \o <<"_">> \o Str(n)

\* A page size argument: absent (the parameter's default applies), None, or an int
SizeAbsent == [kind |-> "absent", val |-> 0]
SizeNone == [kind |-> "none", val |-> 0]
SizeInt(n) == [kind |-> "int", val |-> n]

\* the value bound to the parameter label_page_size: the default when absent
BoundPageSize(arg) ==
    IF arg.kind = "absent" THEN SizeInt(MAX_LABELS_PER_MENU) ELSE arg

\* mutant of NormalPageSize: only None and negative sizes are replaced
NormalPageSize_negative_only(size) ==
    IF size.kind = "none" \/ size.val < 0
    THEN MAX_LABELS_PER_MENU
    ELSE size.val

\* if (not label_page_size) or (label_page_size < 1):
\*     label_page_size = MAX_LABELS_PER_MENU
NormalPageSize(size) ==
    IF size.kind = "none" \/ size.val = 0 \/ size.val < 1
    THEN MAX_LABELS_PER_MENU
    ELSE size.val

\* (not labels) or (len(labels) <= label_page_size)
FitsOnePage(ls, size) == ~Truthy(ls) \/ Len(ls) <= size

RECURSIVE Submenus(_, _, _, _)
\* the lines the "write submenus" loop writes from batch number n on
Submenus(root, ls, size, n) ==
    IF n >= BatchCount(ls, size) THEN <<>>
    ELSE write_jump_menu_to_file(SubLabel(root, n), BatchAt(ls, size, n), root)
         \o Submenus(root, ls, size, n + 1)

\* batch_top_labels after the loop
BatchTopLabels(root, ls, size) ==
    [k \in 1..BatchCount(ls, size) |-> SubLabel(root, k - 1)]

\* everything one call of write_labels_to_file_in_batches /
\* write_labels_to_script_file writes
write_labels_to_file_in_batches(root, ls, go_back, arg) ==
    LET size == NormalPageSize(BoundPageSize(arg))
    IN  IF FitsOnePage(ls, size)
        THEN write_jump_menu_to_file(root, ls, go_back)
        ELSE Submenus(root, ls, size, 0)
             \o write_jump_menu_to_file(root, BatchTopLabels(root, ls, size), go_back)

\* ------------------------------------------------------- normalize_label
\* mutant of ReplaceDelimiters: the colon is left in
ReplaceDelimiters_spaces_only(label) == Replace(label, " ", "_")

\* label.replace(" ", "_") then label.replace(COLON, "_")
ReplaceDelimiters(label) == Replace(Replace(label, " ", "_"), COLON, "_")

\* mutant of StartsWithDigit: the test is negated
StartsWithDigit_negated(label) == ~IsDigit(label[1])

\* label[0].isdigit()
StartsWithDigit(label) == IsDigit(label[1])

\* f"{LABEL}_{str(current_time_millis())}", the clock reading millis
TimestampLabel(millis) == LABEL \o <<"_">> \o Str(millis)

\* normalize_label(label, default_label); millis is what current_time_millis()
\* returns if it is called
normalize_label(label, default_label, millis) ==
    LET stripped == IF Truthy(label) THEN Strip(label) ELSE label
    IN  IF ~Truthy(stripped)
        THEN IF Truthy(default_label) THEN default_label
             ELSE TimestampLabel(millis)
        ELSE LET replaced == ReplaceDelimiters(stripped)
             IN  IF StartsWithDigit(replaced)
                 THEN LABEL \o <<"_">> \o replaced
                 ELSE replaced

\* ------------------------------------------------------- parse_text_line
\* ScriptLine(character_name, phrase)
ScriptLine(character_name, phrase) ==
    [character_name |-> character_name, phrase |-> phrase]

\* the None that parse_text_line returns instead of a ScriptLine
NoScriptLine == [character_name |-> None, phrase |-> None]

\* mutant of NoCharacterName: a leading colon counts as a name delimiter
NoCharacterName_negative_only(colon_index) == colon_index < 0

\* colon_index < 1: "character name not defined in screenplay line"
NoCharacterName(colon_index) == colon_index < 1

\* parse_text_line(line): a ScriptLine, or NoScriptLine
parse_text_line(line) ==
    IF ~Truthy(line) THEN NoScriptLine
    ELSE
    LET stripped == Strip(line)
    IN  IF ~Truthy(stripped) THEN NoScriptLine
        ELSE
        LET colon_index == Find(stripped, COLON)
        IN  IF NoCharacterName(colon_index)
            THEN LET rest == LStripSet(stripped, {COLON})
                 IN  IF Truthy(rest) THEN ScriptLine(None, rest) ELSE NoScriptLine
            ELSE
            LET line_length == Len(stripped)
                character_name == RStrip(Slice(stripped, 0, colon_index))
                name_or_none ==
                    IF Truthy(character_name) THEN character_name ELSE None
            IN  IF colon_index = line_length - 1
                THEN ScriptLine(name_or_none, ELLIPSIS)
                ELSE
                LET phrase == Strip(Slice(stripped, colon_index + 1, line_length))
                IN  IF ~Truthy(character_name) /\ ~Truthy(phrase) THEN NoScriptLine
                    ELSE ScriptLine(name_or_none,
                                    IF Truthy(phrase) THEN phrase ELSE ELLIPSIS)

\* ------------------------------------------------- converter: helpers
RECURSIVE RFindFrom(_, _, _)
\* index (0-based) of the last c in s at or before 0-based position i, else -1
RFindFrom(s, c, i) ==
    IF i < 0 THEN -1
    ELSE IF s[i + 1] = c THEN i
    ELSE RFindFrom(s, c, i - 1)

\* str.rfind(c)
RFind(s, c) == RFindFrom(s, c, Len(s) - 1)

\* str.endswith(suffix)
EndsWith(s, suffix) ==
    Len(s) >= Len(suffix) /\ SubSeq(s, Len(s) - Len(suffix) + 1, Len(s)) = suffix

\* generate_script_file_name(source_file_name)
generate_script_file_name(source_file_name) ==
    LET script == <<"s", "c", "r", "i", "p", "t">> \o EXT_RPY
    IN  IF ~Truthy(source_file_name) THEN script
        ELSE
        LET name == RStripSet(LStripSet(source_file_name, {"."}), {"."})
        IN  IF ~Truthy(name) THEN script
            ELSE
            LET last_dot_index == RFind(name, ".")
            IN  IF last_dot_index < 0 THEN name \o EXT_RPY
                ELSE Slice(name, 0, last_dot_index) \o EXT_RPY

\* file_name[:-EXT_RPY_LENGTH]
WithoutExt(file_name) == Slice(file_name, 0, Len(file_name) - Len(EXT_RPY))

\* prepare_output_file_path_and_chapter_label: <<output file name, label>>,
\* existing the names in the output directory, millis the clock if it is read
prepare_output_file_path_and_chapter_label(existing, file_name, millis) ==
    LET chapter_label == normalize_label(WithoutExt(file_name), None, millis)
    IN  IF file_name \in existing
        THEN <<chapter_label \o <<"_">> \o Str(millis) \o EXT_RPY, chapter_label>>
        ELSE <<file_name, chapter_label>>

\* f"ch_{len(character_map)}"
NextCharacterId(character_map) ==
    <<"c", "h", "_">> \o Str(Cardinality(DOMAIN character_map))

\* mutant of setdefault: a plain assignment map[key] = default
setdefault_overwrite(map, key, default) ==
    [k \in DOMAIN map \cup {key} |-> IF k = key THEN default ELSE map[k]]

\* dict.setdefault(key, default): the dict afterwards
setdefault(map, key, default) ==
    IF key \in DOMAIN map THEN map
    ELSE [k \in DOMAIN map \cup {key} |-> IF k = key THEN default ELSE map[k]]

\* the line write_lines_to_script_file writes for a ScriptLine
SayLine(character_id, phrase) ==
    IF Truthy(character_id) THEN <<"say", character_id, phrase>>
    ELSE <<"say", None, phrase>>

\* ------------------------------------------------------------------- state
VARIABLES
    pc,                \* position of the running program
    tool,              \* "indexer" or "generator": whose menu builder runs
    labels,            \* menu builder: the label list
    root_label,        \* menu builder: the root label
    go_back_label,     \* menu builder: the caller's go-back label, or None
    page_size_arg,     \* menu builder: the page size argument as passed
    label_page_size,   \* menu builder: the local label_page_size
    batch_number,      \* menu builder: the local batch_number
    batch_top_labels,  \* menu builder: the local batch_top_labels
    index_file,        \* menu builder: the lines written so far
    raw_label,         \* normalize_label: the argument label
    default_label,     \* normalize_label: the argument default_label
    now,               \* normalize_label: the last reading of the clock, or -1
    result,            \* normalize_label: what the call returned
    result2,           \* normalize_label: what a call on that result returned
    line,              \* parse_text_line: the argument line
    script_line,       \* parse_text_line: what the call returned
    input_files,       \* converter: the files os.walk yields, in order
    out_dir,           \* converter: the output directory, name -> lines
    character_map,     \* converter: speaker name -> identifier
    chapter_labels,    \* converter: the labels collected so far
    total_lines,       \* converter: the local total_lines
    file_index,        \* converter: files of the walk already handled
    output_file_path,  \* converter: the script file being written, or None
    chapter_label,     \* converter: the label of that script file, or None
    lines_read,        \* converter: lines of the current source file read
    lines_count,       \* converter: the local lines_count
    main_label,        \* converter: the normalized main label
    error_log,         \* converter: the files "Error processing file:" was
                       \* printed for, as their positions in the walk
    root_labels,       \* indexer: the root labels collected so far
    total_labels_count \* indexer: the local total_labels_count

menuVars == <<tool, labels, root_label, go_back_label, page_size_arg,
              label_page_size, batch_number, batch_top_labels, index_file>>

normVars == <<raw_label, default_label, now, result, result2>>

parseVars == <<line, script_line>>

genVars == <<input_files, out_dir, character_map, chapter_labels, total_lines,
             file_index, output_file_path, chapter_label, lines_read,
             lines_count, main_label, error_log>>

\* the indexer's walk shares input_files, out_dir, file_index, main_label and
\* error_log with the converter's
idxVars == <<root_labels, total_labels_count>>

vars == <<pc, menuVars, normVars, parseVars, genVars, idxVars>>

\* the state of a component that is not running
IdleMenu ==
    /\ tool = "none" /\ labels = <<>> /\ root_label = None
    /\ go_back_label = None /\ page_size_arg = SizeAbsent
    /\ label_page_size = SizeAbsent /\ batch_number = 0
    /\ batch_top_labels = <<>> /\ index_file = <<>>

IdleNorm ==
    /\ raw_label = None /\ default_label = None /\ now = -1
    /\ result = None /\ result2 = None

IdleParse == line = None /\ script_line = NoScriptLine

IdleGen ==
    /\ input_files = <<>> /\ out_dir = <<>> /\ character_map = <<>>
    /\ chapter_labels = <<>> /\ total_lines = 0 /\ file_index = 0
    /\ output_file_path = None /\ chapter_label = None
    /\ lines_read = 0 /\ lines_count = 0
    /\ main_label = None /\ error_log = <<>>

IdleIdx == root_labels = <<>> /\ total_labels_count = 0

\* --------------------------------------------------- menu builder: inputs
Lab(k) == <<"c">> \o Str(k)

\* a generated label list of length n: pairwise distinct labels, or two
\* labels alternating
GenLabels(n, distinct) == [i \in 1..n |-> Lab(IF distinct THEN i ELSE i % 2)]

SmallLabels == {<<"a">>, <<"b">>, <<"m", "_", "0">>}

SeqsUpTo(S, n) == UNION {[1..k -> S] : k \in 0..n}

MenuInputs ==
    {[labels |-> ls, root |-> r] :
        ls \in SeqsUpTo(SmallLabels, MaxSmallLen), r \in {<<"m">>, <<"a">>}}
    \cup
    {[labels |-> GenLabels(n, d), root |-> <<"m">>] :
        n \in 0..MaxLabels, d \in BOOLEAN}

GoBackLabels == {None, <<>>, <<"u", "p">>}

PageSizeArgs ==
    {SizeAbsent, SizeNone, SizeInt(MAX_LABELS_PER_MENU)}
    \cup {SizeInt(n) : n \in (-1)..MaxPageSize}

InitMenu ==
    /\ pc = "menu_entry"
    /\ tool \in {"indexer", "generator"}
    /\ \E inp \in MenuInputs : labels = inp.labels /\ root_label = inp.root
    \* write_labels_to_script_file has no go_back_label parameter
    /\ go_back_label \in (IF tool = "indexer" THEN GoBackLabels ELSE {None})
    /\ page_size_arg \in PageSizeArgs
    /\ label_page_size = BoundPageSize(page_size_arg)
    /\ batch_number = 0
    /\ batch_top_labels = <<>>
    /\ index_file = <<>>
    /\ IdleNorm /\ IdleParse /\ IdleGen /\ IdleIdx

\* ------------------------------------------------- menu builder: actions
\* lines 168-179: the list fits on one page
WriteSinglePage ==
    /\ pc = "menu_entry"
    /\ LET size == NormalPageSize(label_page_size)
       IN  /\ FitsOnePage(labels, size)
           /\ label_page_size' = SizeInt(size)
           /\ index_file' = index_file
                  \o write_jump_menu_to_file(root_label, labels, go_back_label)
    /\ pc' = "menu_done"
    /\ UNCHANGED <<idxVars, tool, labels, root_label, go_back_label, page_size_arg,
                   batch_number, batch_top_labels, normVars, parseVars, genVars>>

\* lines 168-182: the list does not fit; the submenu loop starts
StartBatches ==
    /\ pc = "menu_entry"
    /\ LET size == NormalPageSize(label_page_size)
       IN  /\ ~FitsOnePage(labels, size)
           /\ label_page_size' = SizeInt(size)
    /\ batch_number' = 0
    /\ batch_top_labels' = <<>>
    /\ pc' = "menu_batches"
    /\ UNCHANGED <<idxVars, tool, labels, root_label, go_back_label, page_size_arg,
                   index_file, normVars, parseVars, genVars>>

\* lines 185-196: one iteration of the loop over batch_labels(...)
WriteSubmenu ==
    /\ pc = "menu_batches"
    /\ batch_number < BatchCount(labels, label_page_size.val)
    /\ LET top_label == SubLabel(root_label, batch_number)
           labels_batch == batch_labels(labels, label_page_size.val)[batch_number + 1]
       IN  /\ batch_top_labels' = Append(batch_top_labels, top_label)
           /\ index_file' = index_file
                  \o write_jump_menu_to_file(top_label, labels_batch, root_label)
    /\ batch_number' = batch_number + 1
    /\ UNCHANGED <<idxVars, pc, tool, labels, root_label, go_back_label, page_size_arg,
                   label_page_size, normVars, parseVars, genVars>>

\* lines 198-204: the generator is exhausted; the top menu is written
WriteTopMenu ==
    /\ pc = "menu_batches"
    /\ batch_number >= BatchCount(labels, label_page_size.val)
    /\ index_file' = index_file
           \o write_jump_menu_to_file(root_label, batch_top_labels, go_back_label)
    /\ pc' = "menu_done"
    /\ UNCHANGED <<idxVars, tool, labels, root_label, go_back_label, page_size_arg,
                   label_page_size, batch_number, batch_top_labels,
                   normVars, parseVars, genVars>>

NextMenu == WriteSinglePage \/ StartBatches \/ WriteSubmenu \/ WriteTopMenu

SpecMenu == InitMenu /\ [][NextMenu]_vars

\* ------------------------------------------------ normalize_label: runs
TextChars == {" ", "\n", ":", "1", "a"}

RawTexts == SeqsUpTo(TextChars, MaxTextLen) \cup {None}

DefaultLabels ==
    {None, <<>>, <<"m">>, <<" ", "m">>, <<"m", " ", "n">>, <<"m", ":">>, <<"1">>}

Millis == 0..MaxMillis

InitNorm ==
    /\ pc = "norm_entry"
    /\ raw_label \in RawTexts
    /\ default_label \in DefaultLabels
    /\ now = -1
    /\ result = None
    /\ result2 = None
    /\ IdleMenu /\ IdleParse /\ IdleGen /\ IdleIdx

\* the synthesized label is needed: the clock is read
NeedsClock(label, default) ==
    /\ ~Truthy(IF Truthy(label) THEN Strip(label) ELSE label)
    /\ ~Truthy(default)

\* one call normalize_label(raw_label, default_label)
Normalize ==
    /\ pc = "norm_entry"
    /\ \E t \in Millis :
        /\ now' = IF NeedsClock(raw_label, default_label) THEN t ELSE now
        /\ result' = normalize_label(raw_label, default_label, t)
    /\ pc' = "norm_once"
    /\ UNCHANGED <<idxVars, raw_label, default_label, result2, menuVars, parseVars, genVars>>

\* a second call, on the first call's result, with the same default or none
Renormalize ==
    /\ pc = "norm_once"
    /\ \E t \in Millis, d \in {default_label, None} :
        /\ now' = IF NeedsClock(result, d) THEN t ELSE now
        /\ result2' = normalize_label(result, d, t)
    /\ pc' = "norm_twice"
    /\ UNCHANGED <<idxVars, raw_label, default_label, result, menuVars, parseVars, genVars>>

NextNorm == Normalize \/ Renormalize

SpecNorm == InitNorm /\ [][NextNorm]_vars

\* ------------------------------------------------ parse_text_line: runs
LineChars == {" ", "\n", ":", "a", "b"}

Lines == SeqsUpTo(LineChars, MaxLineLen)

InitParse ==
    /\ pc = "parse_entry"
    /\ line \in Lines
    /\ script_line = NoScriptLine
    /\ IdleMenu /\ IdleNorm /\ IdleGen /\ IdleIdx

\* one call parse_text_line(line)
ParseLine ==
    /\ pc = "parse_entry"
    /\ script_line' = parse_text_line(line)
    /\ pc' = "parse_done"
    /\ UNCHANGED <<idxVars, line, menuVars, normVars, genVars>>

NextParse == ParseLine

SpecParse == InitParse /\ [][NextParse]_vars

\* ------------------------------------------------------ converter: runs
FileA == <<"a", ".", "t", "x", "t">>
FileOne == <<"1", ".", "t", "x", "t">>
FileNote == <<"n", ".", "m", "d">>

\* the screenplay lines the files are made of
ScreenplayLines ==
    {<<"a", ":", "x", "\n">>, <<"b", ":", " ", "y", "\n">>, <<"z", "\n">>}

Screenplays == SeqsUpTo(ScreenplayLines, MaxFileLines)

\* the second file of a walk has one line at most
ShortScreenplays == {<<>>} \cup {<<l>> : l \in ScreenplayLines}

SourceFile(name, ls) == [file_name |-> name, lines |-> ls]

\* what os.walk yields: one file; two files of different names; two files of
\* the same name in different directories; a file of another extension first
Walks ==
    {<<SourceFile(FileA, c)>> : c \in Screenplays}
    \cup {<<SourceFile(FileA, c), SourceFile(FileOne, d)>> :
            c \in Screenplays, d \in ShortScreenplays}
    \cup {<<SourceFile(FileA, c), SourceFile(FileA, d)>> :
            c \in Screenplays, d \in ShortScreenplays}
    \cup {<<SourceFile(FileNote, <<>>), SourceFile(FileA, c)>> :
            c \in Screenplays}

\* config.characters: no config, or a mapping display name -> identifier
ConfigCharacters ==
    {<<>>,
     <<"a">> :> <<"a", "l">>,
     <<"b">> :> <<"c", "h", "_", "1">>}

\* the output directory before the run: empty, or a.rpy is there already
OutDirs == {<<>>, (<<"a">> \o EXT_RPY) :> <<<<"label", <<"o", "l", "d">>>>>>}

\* what the clock reads during a run
RunMillis == {5, 6}

\* the main label argument: not given, or "a"
MainLabelArgs == {None, <<"a">>}

\* the page size argument of a run: not given, or 1
RunPageSizes == {SizeAbsent, SizeInt(1)}

InitGen ==
    /\ pc = "walk"
    /\ input_files \in Walks
    /\ out_dir \in OutDirs
    /\ character_map \in ConfigCharacters
    /\ chapter_labels = <<>>
    /\ total_lines = 0
    /\ file_index = 0
    /\ output_file_path = None
    /\ chapter_label = None
    /\ lines_read = 0
    /\ lines_count = 0
    \* generate_rpy_files, line 497
    /\ \E arg \in MainLabelArgs, t \in RunMillis :
          main_label = normalize_label(arg, MAIN_LABEL, t)
    /\ error_log = <<>>
    /\ IdleMenu /\ IdleNorm /\ IdleParse /\ IdleIdx

CurrentFile == input_files[file_index + 1]

\* lines 301-302: the file does not end with ext
SkipFile ==
    /\ pc = "walk"
    /\ file_index < Len(input_files)
    /\ ~EndsWith(CurrentFile.file_name, EXT_TXT)
    /\ file_index' = file_index + 1
    /\ UNCHANGED <<idxVars, pc, input_files, out_dir, character_map, chapter_labels,
                   total_lines, output_file_path, chapter_label, lines_read,
                   lines_count, main_label, error_log, menuVars, normVars,
                   parseVars>>

\* process_text_file up to the open script file with its label line written
\* (write_script_file, lines 216-226)
OpenScriptFile ==
    /\ pc = "walk"
    /\ file_index < Len(input_files)
    /\ EndsWith(CurrentFile.file_name, EXT_TXT)
    /\ \E t \in RunMillis :
        LET prepared ==
                prepare_output_file_path_and_chapter_label(
                    DOMAIN out_dir,
                    generate_script_file_name(CurrentFile.file_name), t)
            path == prepared[1]
            label == prepared[2]
        IN  /\ output_file_path' = path
            /\ chapter_label' = label
            /\ out_dir' =
                 [f \in DOMAIN out_dir \cup {path} |->
                    IF f = path THEN <<<<"label", label>>>> ELSE out_dir[f]]
    /\ lines_read' = 0
    /\ lines_count' = 0
    /\ pc' = "lines"
    /\ UNCHANGED <<idxVars, input_files, character_map, chapter_labels, total_lines,
                   file_index, main_label, error_log, menuVars, normVars,
                   parseVars>>

\* one line of the source file: read_lines_from_file parses it and yields it
\* unless it is None (NoScriptLine); write_lines_to_script_file writes it (lines 161-178)
WriteLine ==
    /\ pc = "lines"
    /\ lines_read < Len(CurrentFile.lines)
    /\ LET parsed == parse_text_line(CurrentFile.lines[lines_read + 1])
       IN  IF parsed = NoScriptLine
           THEN UNCHANGED <<character_map, out_dir, lines_count>>
           ELSE
           LET name == parsed.character_name
               map == IF Truthy(name)
                      THEN setdefault(character_map, name,
                                      NextCharacterId(character_map))
                      ELSE character_map
               character_id == IF Truthy(name) THEN map[name] ELSE None
           IN  /\ character_map' = map
               /\ out_dir' =
                    [out_dir EXCEPT ![output_file_path] =
                        Append(@, SayLine(character_id, parsed.phrase))]
               /\ lines_count' = lines_count + 1
    /\ lines_read' = lines_read + 1
    /\ UNCHANGED <<idxVars, pc, input_files, chapter_labels, total_lines, file_index,
                   output_file_path, chapter_label, main_label, error_log,
                   menuVars, normVars, parseVars>>

\* the source file is exhausted: lines 234-238, then lines 312-315
CloseScriptFile ==
    /\ pc = "lines"
    /\ lines_read = Len(CurrentFile.lines)
    /\ out_dir' =
         IF lines_count = 0
         THEN [out_dir EXCEPT ![output_file_path] = Append(@, <<"pass">>)]
         ELSE out_dir
    /\ total_lines' = total_lines + lines_count
    /\ chapter_labels' =
         IF Truthy(chapter_label) THEN Append(chapter_labels, chapter_label)
         ELSE chapter_labels
    /\ file_index' = file_index + 1
    /\ output_file_path' = None
    /\ chapter_label' = None
    /\ pc' = "walk"
    /\ UNCHANGED <<idxVars, input_files, character_map, lines_read, lines_count,
                   main_label, error_log, menuVars, normVars, parseVars>>

\* mutant of ReadError: the exception ends the walk (the try statement around
\* the loop instead of inside it)
ReadError_aborts ==
    /\ pc = "lines"
    /\ error_log' = Append(error_log, file_index + 1)
    /\ output_file_path' = None
    /\ chapter_label' = None
    /\ pc' = "main"
    /\ UNCHANGED <<idxVars, input_files, out_dir, character_map, chapter_labels,
                   total_lines, file_index, lines_read, lines_count, main_label,
                   menuVars, normVars, parseVars>>

\* opening or reading the source file raises: the script file is closed as it
\* is, the except clause prints the path and goes on to the next file
\* (lines 317-324)
ReadError ==
    /\ pc = "lines"
    /\ error_log' = Append(error_log, file_index + 1)
    /\ file_index' = file_index + 1
    /\ output_file_path' = None
    /\ chapter_label' = None
    /\ pc' = "walk"
    /\ UNCHANGED <<idxVars, input_files, out_dir, character_map, chapter_labels,
                   total_lines, lines_read, lines_count, main_label, menuVars,
                   normVars, parseVars>>

\* preparing or opening the script file raises, before anything is written:
\* the except clause prints the path and goes on to the next file
OpenError ==
    /\ pc = "walk"
    /\ file_index < Len(input_files)
    /\ EndsWith(CurrentFile.file_name, EXT_TXT)
    /\ error_log' = Append(error_log, file_index + 1)
    /\ file_index' = file_index + 1
    /\ UNCHANGED <<idxVars, pc, input_files, out_dir, character_map, chapter_labels,
                   total_lines, output_file_path, chapter_label, lines_read,
                   lines_count, main_label, menuVars, normVars, parseVars>>

\* the walk is over: lines 326-329
FinishWalk ==
    /\ pc = "walk"
    /\ file_index = Len(input_files)
    /\ pc' = "main"
    /\ UNCHANGED <<idxVars, genVars, menuVars, normVars, parseVars>>

\* write_init_to_script_file(main_file, character_map, mod_id): the init block
\* with the mod line and one define per entry of the character map
InitBlock(map, mod_id) == <<<<"init", mod_id, map>>>>

\* create_main_rpy_file without chapter labels: nothing is written
\* (lines 444-445)
NoMainRpyFile ==
    /\ pc = "main"
    /\ ~Truthy(chapter_labels)
    /\ pc' = "gen_done"
    /\ UNCHANGED <<idxVars, genVars, menuVars, normVars, parseVars>>

\* create_main_rpy_file: the main file with the init block and the jump menus
\* over the chapter labels (lines 447-473)
CreateMainRpyFile ==
    /\ pc = "main"
    /\ Truthy(chapter_labels)
    /\ \E t \in RunMillis, size \in RunPageSizes :
        LET prepared ==
                prepare_output_file_path_and_chapter_label(
                    DOMAIN out_dir, main_label \o EXT_RPY, t)
            path == prepared[1]
            written ==
                InitBlock(character_map, main_label)
                \o write_labels_to_file_in_batches(
                       main_label, chapter_labels, None, size)
        IN  out_dir' =
              [f \in DOMAIN out_dir \cup {path} |->
                 IF f = path THEN written ELSE out_dir[f]]
    /\ pc' = "gen_done"
    /\ UNCHANGED <<idxVars, input_files, character_map, chapter_labels, total_lines,
                   file_index, output_file_path, chapter_label, lines_read,
                   lines_count, main_label, error_log, menuVars, normVars,
                   parseVars>>

NextGen ==
    \/ SkipFile \/ OpenScriptFile \/ WriteLine \/ CloseScriptFile
    \/ ReadError \/ OpenError \/ FinishWalk \/ NoMainRpyFile
    \/ CreateMainRpyFile

SpecGen == InitGen /\ [][NextGen]_vars

\* -------------------------------------------------------- indexer: runs
MAIN_INDEX_LABEL == <<"m", "a", "i", "n", "_", "i", "n", "d", "e", "x">>

\* LABEL_START_POS = len(LABEL)
LABEL_START_POS == Len(LABEL)

\* str.startswith(prefix)
StartsWith(s, prefix) ==
    Len(s) >= Len(prefix) /\ SubSeq(s, 1, Len(prefix)) = prefix

\* extract_label(line)
extract_label(text) ==
    IF ~Truthy(text) THEN None
    ELSE IF ~StartsWith(text, LABEL) THEN None
    ELSE LET colon_index == Find(text, COLON)
         IN  IF colon_index < LABEL_START_POS + 2 THEN None
             ELSE Strip(Slice(text, LABEL_START_POS, colon_index))

RECURSIVE read_labels_from_file(_)
\* read_labels_from_file: the labels of the lines of a file, in their order
read_labels_from_file(ls) ==
    IF ls = <<>> THEN <<>>
    ELSE LET label == extract_label(Head(ls))
         IN  (IF Truthy(label) THEN <<label>> ELSE <<>>)
             \o read_labels_from_file(Tail(ls))

\* prepare_output_file_path_and_root_label: <<output file name, root label>>
prepare_output_file_path_and_root_label(existing, file_name, millis) ==
    LET label == normalize_label(WithoutExt(file_name), None, millis)
    IN  IF file_name \in existing
        THEN <<label \o <<"_">> \o Str(millis) \o EXT_RPY, label>>
        ELSE <<file_name, label>>

INDEX_PREFIX == <<"i", "n", "d", "e", "x", "_">>

ScriptA == <<"a">> \o EXT_RPY
ScriptB == <<"b">> \o EXT_RPY

\* the lines the script files are made of: two label declarations, and a line
\* that starts with "label" without declaring one
ScriptLines ==
    {<<"l", "a", "b", "e", "l", " ", "x", ":", "\n">>,
     <<"l", "a", "b", "e", "l", " ", "y", ":", "\n">>,
     <<"l", "a", "b", "e", "l", "x", ":", "\n">>}

Scripts == SeqsUpTo(ScriptLines, MaxFileLines)

ShortScripts == {<<>>} \cup {<<l>> : l \in ScriptLines}

\* what os.walk yields to the indexer
IdxWalks ==
    {<<SourceFile(ScriptA, c)>> : c \in Scripts}
    \cup {<<SourceFile(ScriptA, c), SourceFile(ScriptB, d)>> :
            c \in Scripts, d \in ShortScripts}
    \cup {<<SourceFile(ScriptA, c), SourceFile(ScriptA, d)>> :
            c \in Scripts, d \in ShortScripts}
    \cup {<<SourceFile(FileNote, <<>>), SourceFile(ScriptA, c)>> :
            c \in Scripts}

\* the output directory before an indexer run: empty, or index_a.rpy is there
IdxOutDirs ==
    {<<>>, (INDEX_PREFIX \o ScriptA) :> <<<<"label", <<"o", "l", "d">>>>>>}

InitIdx ==
    /\ pc = "idx_walk"
    /\ input_files \in IdxWalks
    /\ out_dir \in IdxOutDirs
    /\ root_labels = <<>>
    /\ total_labels_count = 0
    /\ file_index = 0
    \* index_rpy_files, line 358
    /\ \E arg \in MainLabelArgs, t \in RunMillis :
          main_label = normalize_label(arg, MAIN_INDEX_LABEL, t)
    /\ error_log = <<>>
    /\ character_map = <<>> /\ chapter_labels = <<>> /\ total_lines = 0
    /\ output_file_path = None /\ chapter_label = None
    /\ lines_read = 0 /\ lines_count = 0
    \* the page size argument of the run
    /\ page_size_arg \in RunPageSizes
    /\ tool = "indexer"
    /\ labels = <<>> /\ root_label = None /\ go_back_label = None
    /\ label_page_size = MAX_LABELS_PER_MENU /\ batch_number = 0
    /\ batch_top_labels = <<>> /\ index_file = <<>>
    /\ IdleNorm /\ IdleParse

\* lines 305-306: the file does not end with ext
IdxSkipFile ==
    /\ pc = "idx_walk"
    /\ file_index < Len(input_files)
    /\ ~EndsWith(CurrentFile.file_name, EXT_RPY)
    /\ file_index' = file_index + 1
    /\ UNCHANGED <<pc, idxVars, input_files, out_dir, character_map,
                   chapter_labels, total_lines, output_file_path,
                   chapter_label, lines_read, lines_count, main_label,
                   error_log, menuVars, normVars, parseVars>>

\* process_script_file returns and its results are recorded (lines 308-320):
\* a file without labels writes nothing and gives no root label; otherwise
\* write_labels_to_file writes the jump menus of the file's labels, with the
\* main label to go back to, to index_<file name>
ProcessScriptFile ==
    /\ pc = "idx_walk"
    /\ file_index < Len(input_files)
    /\ EndsWith(CurrentFile.file_name, EXT_RPY)
    /\ LET file_labels == read_labels_from_file(CurrentFile.lines)
       IN  IF ~Truthy(file_labels)
           THEN UNCHANGED <<out_dir, root_labels, total_labels_count>>
           ELSE \E t \in RunMillis :
                LET prepared ==
                        prepare_output_file_path_and_root_label(
                            DOMAIN out_dir,
                            INDEX_PREFIX \o CurrentFile.file_name, t)
                    path == prepared[1]
                    root == prepared[2]
                    written ==
                        write_labels_to_file_in_batches(
                            root, file_labels, main_label, page_size_arg)
                IN  /\ out_dir' =
                         [f \in DOMAIN out_dir \cup {path} |->
                            IF f = path THEN written ELSE out_dir[f]]
                    /\ total_labels_count' =
                         total_labels_count + Len(file_labels)
                    /\ root_labels' =
                         IF Truthy(root) THEN Append(root_labels, root)
                         ELSE root_labels
    /\ file_index' = file_index + 1
    /\ UNCHANGED <<pc, input_files, character_map, chapter_labels,
                   total_lines, output_file_path, chapter_label, lines_read,
                   lines_count, main_label, error_log, menuVars, normVars,
                   parseVars>>

\* process_script_file raises while the script file is opened or read: the
\* except clause prints the path and goes on to the next file (lines 322-329)
ProcessScriptFileError ==
    /\ pc = "idx_walk"
    /\ file_index < Len(input_files)
    /\ EndsWith(CurrentFile.file_name, EXT_RPY)
    /\ error_log' = Append(error_log, file_index + 1)
    /\ file_index' = file_index + 1
    /\ UNCHANGED <<pc, idxVars, input_files, out_dir, character_map,
                   chapter_labels, total_lines, output_file_path,
                   chapter_label, lines_read, lines_count, main_label,
                   menuVars, normVars, parseVars>>

\* the walk is over: lines 331-335
IdxFinishWalk ==
    /\ pc = "idx_walk"
    /\ file_index = Len(input_files)
    /\ pc' = "idx_main"
    /\ UNCHANGED <<idxVars, genVars, menuVars, normVars, parseVars>>

\* create_main_index_file without root labels: nothing is written
NoMainIndexFile ==
    /\ pc = "idx_main"
    /\ ~Truthy(root_labels)
    /\ pc' = "idx_done"
    /\ UNCHANGED <<idxVars, genVars, menuVars, normVars, parseVars>>

\* create_main_index_file: the jump menus over the root labels, without a
\* label to go back to, written to <main label>.rpy
CreateMainIndexFile ==
    /\ pc = "idx_main"
    /\ Truthy(root_labels)
    /\ \E t \in RunMillis :
        LET prepared ==
                prepare_output_file_path_and_root_label(
                    DOMAIN out_dir, main_label \o EXT_RPY, t)
            path == prepared[1]
            written ==
                write_labels_to_file_in_batches(
                    prepared[2], root_labels, None, page_size_arg)
        IN  out_dir' =
              [f \in DOMAIN out_dir \cup {path} |->
                 IF f = path THEN written ELSE out_dir[f]]
    /\ pc' = "idx_done"
    /\ UNCHANGED <<idxVars, input_files, character_map, chapter_labels,
                   total_lines, file_index, output_file_path, chapter_label,
                   lines_read, lines_count, main_label, error_log, menuVars,
                   normVars, parseVars>>

\* --------------------------------- the batch processors of the two tools
InitBatch == InitGen \/ InitIdx

NextBatch ==
    \/ SkipFile \/ OpenScriptFile \/ WriteLine \/ CloseScriptFile
    \/ ReadError \/ OpenError \/ FinishWalk \/ NoMainRpyFile
    \/ CreateMainRpyFile
    \/ IdxSkipFile \/ ProcessScriptFile \/ ProcessScriptFileError
    \/ IdxFinishWalk \/ NoMainIndexFile \/ CreateMainIndexFile

SpecBatch == InitBatch /\ [][NextBatch]_vars

\* ------------------------------------------- reading a written menu file
\* number of lines of f after its first line and before the next label line
RECURSIVE BodyLen(_)
BodyLen(f) ==
    IF Len(f) < 2 \/ f[2][1] = "label" THEN 0
    ELSE 1 + BodyLen(Tail(f))

RECURSIVE SplitPages(_)
\* the pages of a written file: each label line with the lines under it
SplitPages(f) ==
    IF f = <<>> THEN <<>>
    ELSE LET n == BodyLen(f)
         IN  <<[label |-> f[1][2], body |-> SubSeq(f, 2, n + 1)]>>
             \o SplitPages(SubSeq(f, n + 2, Len(f)))

PageIsPlaceholder(p) == p.body = <<<<"pass">>>>

PageHasBack(p) == Len(p.body) >= 3 /\ p.body[2] = <<"choice", BACK>>

\* the label the page's "< BACK" entry jumps to, or None
PageBack(p) == IF PageHasBack(p) THEN p.body[3][2] ELSE None

\* the lines of the page's entries, after "menu:" and the back-link
PageEntryLines(p) ==
    IF PageIsPlaceholder(p) THEN <<>>
    ELSE SubSeq(p.body, IF PageHasBack(p) THEN 4 ELSE 2, Len(p.body))

\* the page's entries as (displayed text, jump target) pairs
PageEntries(p) ==
    LET ls == PageEntryLines(p)
    IN  [k \in 1..(Len(ls) \div 2) |->
            [text |-> ls[2 * k - 1][2], jump |-> ls[2 * k][2]]]

\* the entry a label gets: displays the label, jumps to the label
EntryOf(l) == [text |-> l, jump |-> l]

EntriesOf(ls) == [k \in 1..Len(ls) |-> EntryOf(ls[k])]

WrittenPages == SplitPages(index_file)

\* ceil(n / p) for p > 0, as the least k with k * p >= n
CeilDiv(n, p) == CHOOSE k \in 0..n : k * p >= n /\ (k - 1) * p < n

RECURSIVE CountIn(_, _)
\* number of occurrences of x in the sequence s
CountIn(x, s) ==
    IF s = <<>> THEN 0
    ELSE (IF Head(s) = x THEN 1 ELSE 0) + CountIn(x, Tail(s))

RECURSIVE ConcatEntries(_)
\* the entries of a sequence of pages, page after page
ConcatEntries(ps) ==
    IF ps = <<>> THEN <<>>
    ELSE PageEntries(Head(ps)) \o ConcatEntries(Tail(ps))

\* a finished run with a positive int page size that the list exceeds
MenuDone == pc = "menu_done"
PositiveSize == page_size_arg.kind = "int" /\ page_size_arg.val > 0

\* C1: for a label list of length N and a page size P > 0 the builder writes
\* exactly one page when N <= P, and exactly ceil(N/P) sub-pages plus one top
\* page when N > P; in that case every original label (each occurrence of it)
\* is an entry of exactly one sub-page.
C1_PageCount ==
    (MenuDone /\ PositiveSize) =>
        LET N == Len(labels)
            P == page_size_arg.val
            ps == WrittenPages
            subs == SubSeq(ps, 1, Len(ps) - 1)
        IN  /\ N <= P => Len(ps) = 1
            /\ N > P =>
                /\ Len(ps) = CeilDiv(N, P) + 1
                /\ \A i \in 1..N :
                     LET l == labels[i]
                         holders == {k \in 1..Len(subs) :
                                       CountIn(EntryOf(l), PageEntries(subs[k])) > 0}
                     IN  /\ CountIn(EntryOf(l), ConcatEntries(subs))
                              = CountIn(l, labels)
                         /\ CountIn(l, labels) = 1 => Cardinality(holders) = 1

\* C1 witness: a finished paginated run whose last chunk is partial
C1_Witness ==
    /\ MenuDone /\ PositiveSize
    /\ Len(labels) > page_size_arg.val
    /\ Len(labels) % page_size_arg.val # 0
    /\ Len(WrittenPages) = CeilDiv(Len(labels), page_size_arg.val) + 1

\* C2: when N > P the sub-pages are contiguous chunks in input order:
\* their entries concatenated are the input, every sub-page but the last has
\* exactly P entries and the last has between 1 and P.
C2_ContiguousChunks ==
    (MenuDone /\ PositiveSize /\ Len(labels) > page_size_arg.val) =>
        LET P == page_size_arg.val
            ps == WrittenPages
            subs == SubSeq(ps, 1, Len(ps) - 1)
        IN  /\ Len(subs) >= 1
            /\ ConcatEntries(subs) = EntriesOf(labels)
            /\ \A k \in 1..(Len(subs) - 1) : Len(PageEntries(subs[k])) = P
            /\ Len(PageEntries(subs[Len(subs)])) \in 1..P

\* C2 witness: 45 labels with P = 20 give sub-pages of 20, 20 and 5 entries
\* and a top page of 3 entries
C2_Witness ==
    /\ MenuDone
    /\ Len(labels) = 45
    /\ page_size_arg = SizeInt(20)
    /\ Len(WrittenPages) = 4
    /\ Len(PageEntries(WrittenPages[1])) = 20
    /\ Len(PageEntries(WrittenPages[2])) = 20
    /\ Len(PageEntries(WrittenPages[3])) = 5
    /\ Len(PageEntries(WrittenPages[4])) = 3

\* the list exceeds the page size in use, after entry
Paginating ==
    /\ pc \in {"menu_batches", "menu_done"}
    /\ Len(labels) > label_page_size.val

\* C3: when N > P, at every point of the run the pages written so far are
\* the sub-pages of chunks 0, 1, ... in order, the page of chunk i under
\* root_i with a back-link to the root and the chunk's entries; the top page
\* under the root comes only after all ceil(N/P) sub-pages, lists root_0,
\* root_1, ... in chunk order and has the caller's back-link iff one was
\* supplied.
C3_SubPagesThenTop ==
    Paginating =>
        LET P == label_page_size.val
            chunks == CeilDiv(Len(labels), P)
            ps == WrittenPages
        IN  /\ Len(ps) <= chunks + 1
            /\ pc = "menu_done" <=> Len(ps) = chunks + 1
            /\ \A k \in 1..Len(ps) :
                 IF k <= chunks
                 THEN /\ ps[k].label = root_label \o <<"_">> \o Str(k - 1)
                      /\ PageBack(ps[k]) = root_label
                      /\ PageEntries(ps[k]) =
                           EntriesOf(Slice(labels, (k - 1) * P, k * P))
                 ELSE /\ ps[k].label = root_label
                      /\ PageEntries(ps[k]) =
                           [i \in 1..chunks |->
                              EntryOf(root_label \o <<"_">> \o Str(i - 1))]
                      /\ PageHasBack(ps[k]) <=> Truthy(go_back_label)
                      /\ PageHasBack(ps[k]) => PageBack(ps[k]) = go_back_label

\* C3 witness: a finished paginated run of three chunks with a caller's
\* back-link on the top page
C3_Witness ==
    /\ Paginating /\ pc = "menu_done"
    /\ Len(WrittenPages) = 4
    /\ Truthy(go_back_label)
    /\ PageBack(WrittenPages[4]) = go_back_label

\* C4: when len(labels) <= page_size the builder writes exactly one page,
\* under the root label: the back-link first if a go-back label was
\* supplied, then one entry per label in input order, each displaying the
\* label and jumping to it.
C4_SinglePage ==
    (MenuDone /\ Len(labels) <= label_page_size.val) =>
        LET ps == WrittenPages
        IN  /\ Len(ps) = 1
            /\ ps[1].label = root_label
            /\ PageHasBack(ps[1]) <=> Truthy(go_back_label)
            /\ PageHasBack(ps[1]) => PageBack(ps[1]) = go_back_label
            /\ PageEntries(ps[1]) = EntriesOf(labels)
            /\ Len(PageEntryLines(ps[1])) = 2 * Len(labels)

\* C4 witness: a single page with a back-link and two entries
C4_Witness ==
    /\ MenuDone
    /\ Len(labels) = 2 /\ label_page_size.val = 2
    /\ Truthy(go_back_label)
    /\ Len(WrittenPages) = 1
    /\ PageHasBack(WrittenPages[1])

\* C5: with an empty label list and no back-link the builder writes a single
\* page under the root label holding only the no-op placeholder (no menu, no
\* jump), and a call with an empty list always completes.
C5_Placeholder ==
    /\ (MenuDone /\ labels = <<>> /\ ~Truthy(go_back_label)) =>
          index_file = <<<<"label", root_label>>, <<"pass">>>>
    /\ (pc = "menu_entry" /\ labels = <<>>) => ENABLED WriteSinglePage

\* C5 witness: a finished run on an empty list with no back-link
C5_Witness ==
    /\ MenuDone /\ labels = <<>> /\ ~Truthy(go_back_label)
    /\ PageIsPlaceholder(WrittenPages[1])

\* a page size argument that is zero, negative or absent
DegenerateSize ==
    \/ page_size_arg.kind \in {"absent", "none"}
    \/ page_size_arg.kind = "int" /\ page_size_arg.val <= 0

\* C6: a page size that is zero, negative or absent is replaced by 20: the
\* run writes exactly what a call with page size 20 writes for the same
\* labels, root label and go-back label.
C6_DefaultPageSize ==
    (MenuDone /\ DegenerateSize) =>
        /\ label_page_size = SizeInt(20)
        /\ index_file =
             write_labels_to_file_in_batches(
                 root_label, labels, go_back_label, SizeInt(20))

\* C6 witness: a finished run with page size 0 on more than 20 labels, which
\* was paginated
C6_Witness ==
    /\ MenuDone
    /\ page_size_arg = SizeInt(0)
    /\ Len(labels) > 20
    /\ Len(WrittenPages) > 1

\* ------------------------------------------------ normalize_label: claims
HasChar(t, c) == \E i \in 1..Len(t) : t[i] = c

\* non-empty, no space, no colon, does not start with a digit
SafeIdentifier(t) ==
    /\ t # None /\ t # <<>>
    /\ ~HasChar(t, " ") /\ ~HasChar(t, ":")
    /\ t[1] \notin {"0", "1", "2", "3", "4", "5", "6", "7", "8", "9"}

\* a label normalization leaves alone: safe and without surrounding whitespace
NormalizedLabel(t) ==
    /\ SafeIdentifier(t)
    /\ ~IsSpace(t[1]) /\ ~IsSpace(t[Len(t)])

DefaultAbsent == default_label = None \/ default_label = <<>>

TrimmedEmpty(t) == t = None \/ \A i \in 1..Len(t) : IsSpace(t[i])

\* C7 as stated: for every raw text and every optional default label,
\* normalizing the result of normalize_label returns it unchanged.
C7_IdempotentAnyDefault == pc = "norm_twice" => result2 = result

\* C7: for every raw text and every default label that is absent or already
\* normalized, normalizing the result of normalize_label returns it unchanged.
C7_Idempotent ==
    (pc = "norm_twice" /\ (DefaultAbsent \/ NormalizedLabel(default_label)))
        => result2 = result

\* C7 witness: "1 a" became "label_1_a", and normalizing that changed nothing
C7_Witness ==
    /\ pc = "norm_twice"
    /\ raw_label = <<"1", " ", "a">>
    /\ result = <<"l", "a", "b", "e", "l", "_", "1", "_", "a">>
    /\ result2 = result

\* what C8 says of the result when the trimmed text is empty
EmptyTextResult ==
    TrimmedEmpty(raw_label) =>
        IF ~DefaultAbsent
        THEN result = default_label
        ELSE /\ now \in 0..MaxMillis
             /\ result = <<"l", "a", "b", "e", "l", "_">> \o Str(now)

\* C8 as stated: for every raw text and every optional default the result is
\* non-empty, has no space and no colon and does not start with a digit; for
\* an empty trimmed text it is the default if provided, else a timestamp label.
C8_SafeAnyDefault ==
    pc \in {"norm_once", "norm_twice"} =>
        SafeIdentifier(result) /\ EmptyTextResult

\* C8: the same, for every raw text and every default that is absent or is
\* itself non-empty without space or colon and not starting with a digit.
C8_Safe ==
    (pc \in {"norm_once", "norm_twice"}
        /\ (DefaultAbsent \/ SafeIdentifier(default_label)))
        => SafeIdentifier(result) /\ EmptyTextResult

\* C8 witness: whitespace-only text and no default gave a timestamp label
C8_Witness ==
    /\ pc = "norm_once"
    /\ raw_label = <<" ", "\n">>
    /\ default_label = None
    /\ now = 10
    /\ result = <<"l", "a", "b", "e", "l", "_", "1", "0">>

\* ------------------------------------------------ parse_text_line: claims
\* the line without its surrounding whitespace, as the stretch between its
\* first and last non-whitespace characters
Trimmed(t) ==
    LET solid == {i \in 1..Len(t) : ~IsSpace(t[i])}
    IN  IF solid = {} THEN <<>>
        ELSE SubSeq(t, CHOOSE i \in solid : \A j \in solid : i <= j,
                       CHOOSE i \in solid : \A j \in solid : i >= j)

\* C9: parse_text_line on every line, the cases taken on the trimmed line:
\* empty or whitespace-only gives no record; no delimiter, or the delimiter
\* first, gives a record without speaker whose phrase is the line with its
\* leading delimiters stripped, or no record if nothing remains; otherwise
\* the speaker is the trimmed text before the first delimiter and the phrase
\* the trimmed text after it, "..." when nothing follows.
C9_ParseTextLine ==
    pc = "parse_done" =>
        LET t == Trimmed(line)
            colons == {i \in 1..Len(t) : t[i] = ":"}
            others == {i \in 1..Len(t) : t[i] # ":"}
        IN  IF t = <<>> THEN script_line = NoScriptLine
            ELSE IF colons = {} \/ t[1] = ":"
            THEN IF others = {} THEN script_line = NoScriptLine
                 ELSE LET first == CHOOSE i \in others : \A j \in others : i <= j
                      IN  script_line =
                            [character_name |-> None,
                             phrase |-> SubSeq(t, first, Len(t))]
            ELSE LET k == CHOOSE i \in colons : \A j \in colons : i <= j
                     after == Trimmed(SubSeq(t, k + 1, Len(t)))
                 IN  script_line =
                       [character_name |-> Trimmed(SubSeq(t, 1, k - 1)),
                        phrase |-> IF after = <<>> THEN <<".", ".", ".">>
                                   ELSE after]

\* C9 witness: "a: b" parsed to speaker "a", phrase "b"
C9_Witness ==
    /\ pc = "parse_done"
    /\ line = <<"a", ":", " ", "b">>
    /\ script_line = [character_name |-> <<"a">>, phrase |-> <<"b">>]

\* further cases of C9 that the runs reach: "a:" and ":b"
C9_WitnessEllipsis ==
    /\ pc = "parse_done"
    /\ line = <<"a", ":">>
    /\ script_line = [character_name |-> <<"a">>, phrase |-> <<".", ".", ".">>]

C9_WitnessNarration ==
    /\ pc = "parse_done"
    /\ line = <<":", "b">>
    /\ script_line = [character_name |-> None, phrase |-> <<"b">>]

\* ------------------------------------------------------ converter: claims
\* every entry of the character map is still there, unchanged, after the step
EntriesKept ==
    \A n \in DOMAIN character_map :
        n \in DOMAIN character_map' /\ character_map'[n] = character_map[n]

\* the step reads a line that has a speaker and writes it: with the speaker's
\* identifier of before the step if there is one, else with the new
\* identifier ch_<entries before the step>, which the map then holds
SpeakerLineWritten ==
    (pc = "lines" /\ lines_read' = lines_read + 1) =>
        LET parsed == parse_text_line(CurrentFile.lines[lines_read + 1])
            n == parsed.character_name
            file == out_dir'[output_file_path]
        IN  (parsed # NoScriptLine /\ n # None) =>
                /\ Len(file) = Len(out_dir[output_file_path]) + 1
                /\ file[Len(file)] = <<"say", character_map'[n], parsed.phrase>>
                /\ n \in DOMAIN character_map =>
                     file[Len(file)][2] = character_map[n]
                /\ n \notin DOMAIN character_map =>
                     /\ character_map'[n] =
                          <<"c", "h", "_">> \o Str(Cardinality(DOMAIN character_map))
                     /\ DOMAIN character_map' = DOMAIN character_map \cup {n}

\* C10: identifiers are assigned in first-seen order and are stable in a
\* run: once a speaker has an identifier in the character map (pre-seeded or
\* assigned), every later line of that speaker, in the same or a later file,
\* is written with it, and no step changes or removes an entry of the map.
C10_StableIdentifiers == [][EntriesKept /\ SpeakerLineWritten]_vars

\* C10 witness: speaker a got ch_0 in the first file, b got ch_1, and a's line
\* in the second file is written with ch_0 again
C10_Witness ==
    /\ pc = "main"
    /\ Len(chapter_labels) = 2
    /\ character_map =
         (<<"a">> :> <<"c", "h", "_", "0">> @@ <<"b">> :> <<"c", "h", "_", "1">>)
    /\ DOMAIN out_dir = {<<"a">> \o EXT_RPY, <<"1">> \o EXT_RPY}
    /\ out_dir[<<"a">> \o EXT_RPY] =
         <<<<"label", <<"a">>>>,
           <<"say", <<"c", "h", "_", "0">>, <<"x">>>>,
           <<"say", <<"c", "h", "_", "1">>, <<"y">>>>>>
    /\ out_dir[<<"1">> \o EXT_RPY] =
         <<<<"label", <<"l", "a", "b", "e", "l", "_", "1">>>>,
           <<"say", <<"c", "h", "_", "0">>, <<"x">>>>>>

\* the file at position n of the walk has the extension the run converts
MatchingFile(n) ==
    LET name == input_files[n].file_name
    IN  Len(name) >= 4 /\ SubSeq(name, Len(name) - 3, Len(name)) = <<".", "t", "x", "t">>

\* the chapter label of the screenplay files of the walks
LabelOfFile(name) ==
    IF name = <<"a", ".", "t", "x", "t">> THEN <<"a">>
    ELSE IF name = <<"1", ".", "t", "x", "t">>
    THEN <<"l", "a", "b", "e", "l", "_", "1">>
    ELSE None

Logged(n) == \E k \in 1..Len(error_log) : error_log[k] = n

RECURSIVE LabelsOfCompleted(_)
\* the labels of the matching files among the first n of the walk that did
\* not raise, in the order of the walk
LabelsOfCompleted(n) ==
    IF n = 0 THEN <<>>
    ELSE LabelsOfCompleted(n - 1)
         \o (IF MatchingFile(n) /\ ~Logged(n)
             THEN <<LabelOfFile(input_files[n].file_name)>>
             ELSE <<>>)

\* the file at position n of the walk has the extension the indexer reads
MatchingScript(n) ==
    LET name == input_files[n].file_name
    IN  Len(name) >= 4 /\ SubSeq(name, Len(name) - 3, Len(name)) = <<".", "r", "p", "y">>

\* the script file at position n of the walk declares a label
DeclaresLabel(n) ==
    \E k \in 1..Len(input_files[n].lines) :
        input_files[n].lines[k] \in
            {<<"l", "a", "b", "e", "l", " ", "x", ":", "\n">>,
             <<"l", "a", "b", "e", "l", " ", "y", ":", "\n">>}

\* the root label of the index of the script files of the walks
RootLabelOfScript(name) ==
    IF name = <<"a", ".", "r", "p", "y">>
    THEN <<"i", "n", "d", "e", "x", "_", "a">>
    ELSE IF name = <<"b", ".", "r", "p", "y">>
    THEN <<"i", "n", "d", "e", "x", "_", "b">>
    ELSE None

RECURSIVE RootLabelsOfCompleted(_)
\* the root labels of the matching script files among the first n of the walk
\* that did not raise and declare a label, in the order of the walk
RootLabelsOfCompleted(n) ==
    IF n = 0 THEN <<>>
    ELSE RootLabelsOfCompleted(n - 1)
         \o (IF MatchingScript(n) /\ ~Logged(n) /\ DeclaresLabel(n)
             THEN <<RootLabelOfScript(input_files[n].file_name)>>
             ELSE <<>>)

\* C11: a per-file error never aborts the run of either tool: it is logged,
\* no label is recorded for the file, and the walk goes on, so that between
\* files the collected labels are exactly those of the files handled so far
\* that did not raise (for the indexer: and that have a label to index), in
\* processing order, only matching files are logged, each once, and the walk
\* ends only when every file has been handled.
C11_ErrorsSkipped ==
    /\ pc \in {"walk", "main", "gen_done"} =>
        /\ chapter_labels = LabelsOfCompleted(file_index)
        /\ \A k \in 1..Len(error_log) :
             /\ error_log[k] \in 1..file_index
             /\ MatchingFile(error_log[k])
             /\ \A j \in 1..Len(error_log) : error_log[j] = error_log[k] => j = k
        /\ pc \in {"main", "gen_done"} => file_index = Len(input_files)
    /\ pc \in {"idx_walk", "idx_main", "idx_done"} =>
        /\ root_labels = RootLabelsOfCompleted(file_index)
        /\ \A k \in 1..Len(error_log) :
             /\ error_log[k] \in 1..file_index
             /\ MatchingScript(error_log[k])
             /\ \A j \in 1..Len(error_log) : error_log[j] = error_log[k] => j = k
        /\ pc \in {"idx_main", "idx_done"} => file_index = Len(input_files)

\* C11 witness: the first of two files raised while it was read, the second
\* was converted, and the run ended with the second file's label alone
C11_Witness ==
    /\ pc = "gen_done"
    /\ Len(input_files) = 2
    /\ error_log = <<1>>
    /\ DOMAIN out_dir = {<<"a">> \o EXT_RPY, <<"1">> \o EXT_RPY, MAIN_LABEL \o EXT_RPY}
    /\ chapter_labels = <<<<"l", "a", "b", "e", "l", "_", "1">>>>

\* C12: a write never overwrites a file that is already in the output
\* directory: a file with the name the converter would write makes it use a
\* timestamp-suffixed name instead, so every file that existed before a step,
\* other than the script file the step is writing to, has the same content
\* after it.
C12_NoOverwrite ==
    [][\A f \in DOMAIN out_dir :
          f # output_file_path =>
              f \in DOMAIN out_dir' /\ out_dir'[f] = out_dir[f]]_vars

\* C13: the character map is injective at every point of a run, pre-seeded
\* or not: two different speaker names never share an identifier.
C13_InjectiveMap ==
    \A n1 \in DOMAIN character_map, n2 \in DOMAIN character_map :
        n1 # n2 => character_map[n1] # character_map[n2]

\* the labels declared in a written file
DeclaredLabels(f) == {i \in 1..Len(f) : f[i][1] = "label"}

\* the main files in the output directory: those that start with an init block
MainFiles == {f \in DOMAIN out_dir : out_dir[f][1][1] = "init"}

\* C14: labels are unique in a navigation scope: the labels a run collects
\* from its files and passes to the menu builder are pairwise distinct and
\* distinct from the main label, and the page labels the menu builder declares
\* for them (the root label and every root_i) are pairwise distinct and
\* distinct from every label passed in.
C14_UniqueLabels ==
    /\ \A i \in 1..Len(chapter_labels), j \in 1..Len(chapter_labels) :
          i # j => chapter_labels[i] # chapter_labels[j]
    /\ \A i \in 1..Len(chapter_labels) : chapter_labels[i] # main_label
    /\ pc = "gen_done" =>
          \A f \in MainFiles :
              LET file == out_dir[f]
              IN  \A i \in DeclaredLabels(file) :
                    /\ \A j \in DeclaredLabels(file) :
                          i # j => file[i][2] # file[j][2]
                    /\ \A k \in 1..Len(chapter_labels) :
                          file[i][2] # chapter_labels[k]

====
